---- MODULE Spec2Model ----
(***************************************************************************)
(* Model of habitat/datasets/pointnav/pointnav_dataset.py                  *)
(* (PointNavDatasetV1): construction of a dataset from a combined file and *)
(* per-scene shard files, from_json, _get_scenes_from_folder and           *)
(* get_scenes_to_load.                                                     *)
(*                                                                         *)
(* Strings are sequences of one-character strings, so that startswith,     *)
(* endswith, slicing, os.path.join and sorting are computed, not assumed.  *)
(* A template is such a sequence in which the placeholders "{data_path}"   *)
(* and "{scene}" are single elements.                                      *)
(***************************************************************************)
EXTENDS Integers, Sequences, FiniteSets, TLC

VARIABLES
    fs,                   \* the file system: directories, files, combined document
    config,               \* the caller's configuration
    cfg,                  \* the configuration handed to __init__ (config or its copy)
    op,                   \* entry point called: "init", "get", "discover"
    pass,                 \* get_scenes_to_load: which of its two constructions runs
    pc,                   \* position in the running operation
    episodes,             \* self.episodes
    content_scenes_path,  \* self.content_scenes_path
    open,                 \* paths of the files currently open
    scenes,               \* the list the shard loop iterates over
    i,                    \* 0 while the combined file is handled, then loop index
    sharded,              \* has_individual_scene_files of the running construction
    reads,                \* history: paths opened by the running construction
    parses,               \* history: number of from_json calls of the construction
    result,               \* value returned by get_scenes_to_load / _get_scenes_from_folder
    err                   \* exception that ended the operation, or "none"

vars == <<fs, config, cfg, op, pass, pc, episodes, content_scenes_path, open,
          scenes, i, sharded, reads, parses, result, err>>

----------------------------------------------------------------------------
(* Bounds *)

MaxRequested == 2

----------------------------------------------------------------------------
(* String primitives *)

Take(s, n) == SubSeq(s, 1, n)

Drop(s, n) == SubSeq(s, n + 1, Len(s))

StartsWith(s, p) == Len(p) <= Len(s) /\ Take(s, Len(p)) = p

EndsWith(s, p) == Len(p) <= Len(s) /\ Drop(s, Len(s) - Len(p)) = p

\* s[:-n] of Python: -0 is 0, so s[:-0] is s[:0], the empty string
SliceToMinus(s, n) == IF n = 0 THEN <<>> ELSE Take(s, IF Len(s) > n THEN Len(s) - n ELSE 0)

\* characters of the model in ascending code point order
CodePoints == <<"*", ".", "/", "A", "B", "C", "_", "a", "b", "c", "d", "e", "g",
                "j", "l", "n", "o", "r", "s", "t", "x", "z">>

Ord(c) == CHOOSE k \in 1..Len(CodePoints) : CodePoints[k] = c

RECURSIVE StrLess(_, _)
StrLess(s, t) ==
    IF t = <<>> THEN FALSE
    ELSE IF s = <<>> THEN TRUE
    ELSE IF Head(s) = Head(t) THEN StrLess(Tail(s), Tail(t))
    ELSE Ord(Head(s)) < Ord(Head(t))

RECURSIVE Insert(_, _)
Insert(x, sorted) ==
    IF sorted = <<>> THEN <<x>>
    ELSE IF StrLess(x, Head(sorted)) THEN <<x>> \o sorted
    ELSE <<Head(sorted)>> \o Insert(x, Tail(sorted))

RECURSIVE Sort(_)
Sort(list) == IF list = <<>> THEN <<>> ELSE Insert(Head(list), Sort(Tail(list)))

Range(f) == {f[k] : k \in DOMAIN f}

\* index of the last occurrence of c in s, 0 when absent
LastIndex(s, c) ==
    IF \E k \in 1..Len(s) : s[k] = c
    THEN CHOOSE k \in 1..Len(s) : s[k] = c /\ \A m \in (k + 1)..Len(s) : s[m] # c
    ELSE 0

\* index of the first occurrence of c in s, Len(s)+1 when absent
FirstIndex(s, c) ==
    IF \E k \in 1..Len(s) : s[k] = c
    THEN CHOOSE k \in 1..Len(s) : s[k] = c /\ \A m \in 1..(k - 1) : s[m] # c
    ELSE Len(s) + 1

----------------------------------------------------------------------------
(* os.path *)

RECURSIVE RStripSlash(_)
RStripSlash(p) ==
    IF p # <<>> /\ p[Len(p)] = "/" THEN RStripSlash(Take(p, Len(p) - 1)) ELSE p

\* os.path.dirname: the head of the path, trailing slashes removed unless it is all slashes
Dirname(p) ==
    LET head == Take(p, LastIndex(p, "/"))
    IN  IF head # <<>> /\ \E k \in 1..Len(head) : head[k] # "/"
        THEN RStripSlash(head) ELSE head

\* os.path.basename
Basename(p) == Drop(p, LastIndex(p, "/"))

\* os.path.join(a, b)
PathJoin(a, b) ==
    IF StartsWith(b, <<"/">>) THEN b
    ELSE IF a = <<>> \/ a[Len(a)] = "/" THEN a \o b
    ELSE a \o <<"/">> \o b

\* os.path.splitext(name)[0]: the last dot splits, leading dots do not count
SplitextRoot(name) ==
    LET dot == LastIndex(name, ".")
    IN  IF dot = 0 \/ \A k \in 1..dot : name[k] = "." THEN name ELSE Take(name, dot - 1)

----------------------------------------------------------------------------
(* Program constants *)

DEFAULT_SCENE_PATH_PREFIX ==
    <<"d", "a", "t", "a", "/", "s", "c", "e", "n", "e", "_",
      "d", "a", "t", "a", "s", "e", "t", "s", "/">>

DefaultContentScenesPath ==
    <<"{data_path}", "/", "c", "o", "n", "t", "e", "n", "t", "/", "{scene}",
      ".", "j", "s", "o", "n", ".", "g", "z">>

ALL_SCENES_MASK == <<"*">>

None == <<"<None>">>

----------------------------------------------------------------------------
(* Templates: str.split("{scene}") and str.format *)

ScenePlaceholder == "{scene}"

DataPathPlaceholder == "{data_path}"

\* template.split("{scene}")[0]
SplitHead(t) == Take(t, FirstIndex(t, ScenePlaceholder) - 1)

\* template.split("{scene}")[1]: what lies between the first placeholder and the next
SplitSecond(t) ==
    LET rest == Drop(t, FirstIndex(t, ScenePlaceholder))
    IN  Take(rest, FirstIndex(rest, ScenePlaceholder) - 1)

\* template.format(data_path=d, scene=s)
RECURSIVE Format(_, _, _)
Format(t, d, s) ==
    IF t = <<>> THEN <<>>
    ELSE (IF Head(t) = DataPathPlaceholder THEN d
          ELSE IF Head(t) = ScenePlaceholder THEN s
          ELSE <<Head(t)>>) \o Format(Tail(t), d, s)

\* content_scenes_path.split("{scene}")[0].format(data_path=dataset_dir)
ContentDir(t, d) == Format(SplitHead(t), d, <<>>)

----------------------------------------------------------------------------
(* The inputs: paths, templates, documents *)

\* config.data_path.format(split=config.split)
DatasetFilePath == <<"D", "/", "s", ".", "g", "z">>

DatasetDir == Dirname(DatasetFilePath)

AltContentScenesPath ==
    <<"{data_path}", "/", "a", "l", "t", "/", "{scene}", ".", "j", "s", "o", "n", ".", "g", "z">>

BareContentScenesPath ==
    <<"{data_path}", "/", "c", "o", "n", "t", "e", "n", "t", "/", "{scene}">>

Templates == {DefaultContentScenesPath, AltContentScenesPath, BareContentScenesPath}

JsonGz == <<".", "j", "s", "o", "n", ".", "g", "z">>

ContentPath == <<"D", "/", "c", "o", "n", "t", "e", "n", "t">>

AltPath == <<"D", "/", "a", "l", "t">>

FileA == ContentPath \o <<"/", "A">> \o JsonGz
FileB == ContentPath \o <<"/", "B">> \o JsonGz
FileC == ContentPath \o <<"/", "C">> \o JsonGz
FileTxt == ContentPath \o <<"/", "A", ".", "t", "x", "t">>
AltFileB == AltPath \o <<"/", "B">> \o JsonGz
AltFileC == AltPath \o <<"/", "C">> \o JsonGz

ContentFiles == {FileA, FileB, FileC, FileTxt}

AltFiles == {AltFileB, AltFileC}

SidA == DEFAULT_SCENE_PATH_PREFIX \o <<"A", ".", "g", "l", "b">>
SidB == <<"x", "/", "B", ".", "g", "l", "b">>
SidAbs == DEFAULT_SCENE_PATH_PREFIX \o <<"/", "A", ".", "g", "l", "b">>

\* one JSON episode object; bad names the object in it that lacks a required field
Ep(id, sid, bad) == [episode_id |-> id, scene_id |-> sid, bad |-> bad]

\* one JSON document
Doc(malformed, has_csp, csp, has_episodes, eps) ==
    [malformed |-> malformed, has_csp |-> has_csp, csp |-> csp,
     has_episodes |-> has_episodes, episodes |-> eps]

StubDoc == Doc(FALSE, FALSE, <<>>, TRUE, <<>>)

MalformedDoc == Doc(TRUE, FALSE, <<>>, FALSE, <<>>)

CombinedDocs ==
    { StubDoc,
      Doc(FALSE, TRUE, AltContentScenesPath, TRUE, <<>>),
      Doc(FALSE, TRUE, BareContentScenesPath, TRUE, <<>>),
      Doc(FALSE, FALSE, <<>>, TRUE,
          <<Ep(1, SidA, "none"), Ep(2, SidB, "none"), Ep(3, SidAbs, "none")>>),
      Doc(FALSE, FALSE, <<>>, TRUE,
          <<Ep(4, SidB, "none"), Ep(5, SidA, "episode"), Ep(6, SidA, "none")>>),
      MalformedDoc,
      Doc(FALSE, TRUE, AltContentScenesPath, FALSE, <<>>) }

\* what each shard file of the model holds
ShardDoc(path) ==
    IF path = FileA
    THEN Doc(FALSE, FALSE, <<>>, TRUE, <<Ep(7, SidA, "none"), Ep(8, SidA, "none")>>)
    ELSE IF path = FileB
    THEN Doc(FALSE, TRUE, AltContentScenesPath, TRUE, <<Ep(9, SidB, "none")>>)
    ELSE IF path = FileC
    THEN Doc(FALSE, FALSE, <<>>, TRUE,
             <<Ep(10, SidA, "none"), Ep(11, SidB, "goal"), Ep(12, SidB, "point")>>)
    ELSE IF path = AltFileB
    THEN Doc(FALSE, FALSE, <<>>, TRUE, <<Ep(13, SidB, "none")>>)
    ELSE IF path = AltFileC
    THEN Doc(FALSE, TRUE, DefaultContentScenesPath, TRUE, <<Ep(14, SidAbs, "none")>>)
    ELSE MalformedDoc

SceneA == <<"A">>
SceneB == <<"B">>

RequestedScenes == {SceneA, SceneB, ALL_SCENES_MASK}

SeqsUpTo(S, n) == UNION {[1..k -> S] : k \in 0..n}

ScenesDirs == {None, Take(DEFAULT_SCENE_PATH_PREFIX, 19), <<"r", "/">>}

----------------------------------------------------------------------------
(* The file system *)

IsFile(path) ==
    \/ path \in fs.files
    \/ path = DatasetFilePath /\ fs.has_combined

\* os.path.exists
Exists(path) == IsFile(path) \/ RStripSlash(path) \in fs.dirs

\* the names os.listdir(dir) returns, as a set (dir ends with a slash)
ListDir(dir) ==
    LET base == RStripSlash(dir) \o <<"/">>
    IN  {Drop(f, Len(base)) : f \in {g \in fs.files : StartsWith(g, base)}}

\* the text gzip.open(path).read() returns
ReadDoc(path) == IF path = DatasetFilePath THEN fs.combined ELSE ShardDoc(path)

\* every order in which os.listdir may return the entries
Orders(S) == {q \in [1..Cardinality(S) -> S] : Range(q) = S}

----------------------------------------------------------------------------
(* from_json *)

\* a rewrite that joins without stripping the default prefix
RewriteSceneIdUnstripped(sid, scenes_dir) ==
    IF scenes_dir # None THEN PathJoin(scenes_dir, sid) ELSE sid

\* the scene_id from_json stores for a JSON scene_id
RewriteSceneId(sid, scenes_dir) ==
    IF scenes_dir # None
    THEN PathJoin(scenes_dir,
                  IF StartsWith(sid, DEFAULT_SCENE_PATH_PREFIX)
                  THEN Drop(sid, Len(DEFAULT_SCENE_PATH_PREFIX))
                  ELSE sid)
    ELSE sid

\* the typed episode appended for a JSON episode object
StoredEpisode(e, scenes_dir) ==
    [episode_id |-> e.episode_id, scene_id |-> RewriteSceneId(e.scene_id, scenes_dir)]

\* NavigationEpisode(**episode), NavigationGoal(**goal), ShortestPathPoint(**point)
\* raise TypeError when a required field is missing
Constructs(e) == e.bad = "none"

\* number of episode objects the loop handles before one fails to construct
GoodPrefixLen(objs) ==
    IF \A k \in 1..Len(objs) : Constructs(objs[k]) THEN Len(objs)
    ELSE (CHOOSE k \in 1..Len(objs) :
              ~Constructs(objs[k]) /\ \A m \in 1..(k - 1) : Constructs(objs[m])) - 1

\* the episodes in self.episodes when the loop over objs ends or raises
AppendedEpisodes(eps, objs, scenes_dir) ==
    eps \o [k \in 1..GoodPrefixLen(objs) |-> StoredEpisode(objs[k], scenes_dir)]

\* an override that is taken only while the class default is in effect
TemplateAfterFirstOnly(doc, csp) ==
    IF doc.has_csp /\ csp = DefaultContentScenesPath THEN doc.csp ELSE csp

\* self.content_scenes_path after the document's override has been looked at
TemplateAfter(doc, csp) == IF doc.has_csp THEN doc.csp ELSE csp

\* from_json(json_str, scenes_dir) on a dataset holding eps and csp
FromJson(doc, eps, csp, scenes_dir) ==
    IF doc.malformed
    THEN [ok |-> FALSE, err |-> "JSONDecodeError", episodes |-> eps, csp |-> csp]
    ELSE IF ~doc.has_episodes
    THEN [ok |-> FALSE, err |-> "KeyError", episodes |-> eps,
          csp |-> TemplateAfter(doc, csp)]
    ELSE [ok |-> GoodPrefixLen(doc.episodes) = Len(doc.episodes),
          err |-> IF GoodPrefixLen(doc.episodes) = Len(doc.episodes)
                  THEN "none" ELSE "TypeError",
          episodes |-> AppendedEpisodes(eps, doc.episodes, scenes_dir),
          csp |-> TemplateAfter(doc, csp)]

----------------------------------------------------------------------------
(* Dataset base class: scene identifiers and the content-scenes filter *)

\* Dataset.scene_from_scene_path
scene_from_scene_path(scene_path) == SplitextRoot(Basename(scene_path))

\* the predicate Dataset.build_content_scenes_filter(config) returns
ContentScenesFilter(content_scenes, ep) ==
    \/ ALL_SCENES_MASK \in Range(content_scenes)
    \/ scene_from_scene_path(ep.scene_id) \in Range(content_scenes)

\* Dataset.scene_ids: the distinct scene_id values, sorted
scene_ids(eps) ==
    LET ids == {eps[k].scene_id : k \in 1..Len(eps)}
    IN  Sort(CHOOSE q \in Orders(ids) : TRUE)

----------------------------------------------------------------------------
(* _get_scenes_from_folder *)

\* the scene a matching file name contributes
SceneOfFilename(filename, scene_dataset_ext) ==
    SliceToMinus(filename, Len(scene_dataset_ext))

\* a discovery that returns the scenes in directory order
GetScenesFromFolderUnsorted(csp, dataset_dir, listing) ==
    LET scene_dataset_ext == SplitSecond(csp)
        Matches(filename) == EndsWith(filename, scene_dataset_ext)
        Scene(filename) == SceneOfFilename(filename, scene_dataset_ext)
        kept == SelectSeq(listing, Matches)
    IN  IF ~Exists(ContentDir(csp, dataset_dir)) THEN <<>>
        ELSE [k \in 1..Len(kept) |-> Scene(kept[k])]

\* _get_scenes_from_folder(content_scenes_path, dataset_dir), listing being
\* what os.listdir returns for the content directory
GetScenesFromFolder(csp, dataset_dir, listing) ==
    LET content_dir == ContentDir(csp, dataset_dir)
        scene_dataset_ext == SplitSecond(csp)
        Matches(filename) == EndsWith(filename, scene_dataset_ext)
        Scene(filename) == SceneOfFilename(filename, scene_dataset_ext)
        kept == SelectSeq(listing, Matches)
    IN  IF ~Exists(content_dir) THEN <<>>
        ELSE Sort([k \in 1..Len(kept) |-> Scene(kept[k])])

----------------------------------------------------------------------------
(* Initial states: a file system, a configuration and the entry point called *)

FileSystems ==
    { [dirs |-> {}, files |-> {}, has_combined |-> FALSE, combined |-> MalformedDoc] }
    \cup
    { [dirs |-> {DatasetDir} \cup (IF cdir THEN {ContentPath} ELSE {})
                             \cup (IF adir THEN {AltPath} ELSE {}),
       files |-> cf \cup af,
       has_combined |-> hc,
       combined |-> cd] :
         cdir \in BOOLEAN, adir \in BOOLEAN, hc \in BOOLEAN,
         cf \in SUBSET ContentFiles, af \in SUBSET AltFiles, cd \in CombinedDocs }

WellFormed(f) ==
    /\ f.has_combined \/ f.combined = MalformedDoc
    /\ \A p \in f.files : Dirname(p) \in f.dirs

Configs ==
    [content_scenes : SeqsUpTo(RequestedScenes, MaxRequested), scenes_dir : ScenesDirs]

DiscoverArgs == [content_scenes_path : Templates, dataset_dir : {DatasetDir}]

Init ==
    /\ fs \in {f \in FileSystems : WellFormed(f)}
    /\ op \in {"init", "get", "discover"}
    /\ config \in IF op = "discover" THEN DiscoverArgs ELSE Configs
    /\ cfg = config
    /\ pass = 0
    /\ pc = IF op = "init" THEN "start" ELSE IF op = "get" THEN "g_start" ELSE "d_start"
    /\ episodes = <<>>
    /\ content_scenes_path = DefaultContentScenesPath
    /\ open = {}
    /\ scenes = <<>>
    /\ i = 0
    /\ sharded = FALSE
    /\ reads = <<>>
    /\ parses = 0
    /\ result = <<>>
    /\ err = "none"

----------------------------------------------------------------------------
(* __init__ *)

\* the exception gzip.open raises for a path that is not a file
OpenError(path) ==
    IF RStripSlash(path) \in fs.dirs THEN "IsADirectoryError" ELSE "FileNotFoundError"

\* an open that never fails
CanOpenAlways(path) == TRUE

\* gzip.open succeeds
CanOpen(path) == IsFile(path)

\* a block that leaves its file open
ClosedNever(files, path) == files

\* the open files once the with block of path is left
Closed(files, path) == files \ {path}

\* has_individual_scene_files
HasIndividualSceneFiles(csp) == Exists(ContentDir(csp, DatasetDir))

\* a loop that runs over every discovered scene whatever was requested
ScenesToReadAll(content_scenes, csp, listing) ==
    GetScenesFromFolder(csp, DatasetDir, listing)

\* the list the shard loop runs over
ScenesToRead(content_scenes, csp, listing) ==
    IF ALL_SCENES_MASK \in Range(content_scenes)
    THEN GetScenesFromFolder(csp, DatasetDir, listing)
    ELSE content_scenes

\* a monolithic branch that does not filter
FilteredEpisodesAll(eps, content_scenes) == eps

\* the episodes kept by the monolithic branch
FilteredEpisodes(eps, content_scenes) ==
    LET Keep(ep) == ContentScenesFilter(content_scenes, ep)
    IN  SelectSeq(eps, Keep)

\* the shard file read for a scene
SceneFilename(csp, scene) == Format(csp, DatasetDir, scene)

Raise(e) ==
    /\ pc' = "error"
    /\ err' = e

\* with gzip.open(datasetfile_path, "rt") as f:
OpenCombined ==
    /\ pc = "start"
    /\ IF CanOpen(DatasetFilePath)
       THEN /\ open' = open \cup {DatasetFilePath}
            /\ reads' = Append(reads, DatasetFilePath)
            /\ pc' = "parse"
            /\ UNCHANGED err
       ELSE /\ Raise(OpenError(DatasetFilePath))
            /\ UNCHANGED <<open, reads>>
    /\ UNCHANGED <<fs, config, cfg, op, pass, episodes, content_scenes_path,
                   scenes, i, sharded, parses, result>>

\* self.from_json(f.read(), scenes_dir=config.scenes_dir) inside the with block
Parse ==
    /\ pc = "parse"
    /\ LET r == FromJson(ReadDoc(reads[Len(reads)]), episodes,
                         content_scenes_path, cfg.scenes_dir)
       IN  /\ episodes' = r.episodes
           /\ content_scenes_path' = r.csp
           /\ err' = r.err
           /\ pc' = IF r.ok THEN "close" ELSE "close_exc"
    /\ parses' = parses + 1
    /\ UNCHANGED <<fs, config, cfg, op, pass, open, scenes, i, sharded, reads, result>>

\* leaving the with block, normally or with the exception of from_json
Close ==
    /\ pc \in {"close", "close_exc"}
    /\ open' = Closed(open, reads[Len(reads)])
    /\ pc' = IF pc = "close_exc" THEN "error" ELSE IF i = 0 THEN "layout" ELSE "loop"
    /\ i' = IF pc = "close" /\ i > 0 THEN i + 1 ELSE i
    /\ UNCHANGED <<fs, config, cfg, op, pass, episodes, content_scenes_path,
                   scenes, sharded, reads, parses, result, err>>

\* the layout test and the branch it selects, up to the first shard
Layout ==
    /\ pc = "layout"
    /\ sharded' = HasIndividualSceneFiles(content_scenes_path)
    /\ IF sharded'
       THEN /\ \E listing \in Orders(ListDir(ContentDir(content_scenes_path, DatasetDir))) :
                 scenes' = ScenesToRead(cfg.content_scenes, content_scenes_path, listing)
            /\ i' = 1
            /\ pc' = "loop"
            /\ UNCHANGED episodes
       ELSE /\ episodes' = FilteredEpisodes(episodes, cfg.content_scenes)
            /\ pc' = "done"
            /\ UNCHANGED <<scenes, i>>
    /\ UNCHANGED <<fs, config, cfg, op, pass, content_scenes_path, open,
                   reads, parses, result, err>>

\* for scene in scenes: with gzip.open(scene_filename, "rt") as f:
OpenShard ==
    /\ pc = "loop"
    /\ i <= Len(scenes)
    /\ LET scene_filename == SceneFilename(content_scenes_path, scenes[i])
       IN  IF CanOpen(scene_filename)
           THEN /\ open' = open \cup {scene_filename}
                /\ reads' = Append(reads, scene_filename)
                /\ pc' = "parse"
                /\ UNCHANGED err
           ELSE /\ Raise(OpenError(scene_filename))
                /\ UNCHANGED <<open, reads>>
    /\ UNCHANGED <<fs, config, cfg, op, pass, episodes, content_scenes_path,
                   scenes, i, sharded, parses, result>>

\* the shard loop is exhausted: __init__ returns
LoopEnd ==
    /\ pc = "loop"
    /\ i > Len(scenes)
    /\ pc' = "done"
    /\ UNCHANGED <<fs, config, cfg, op, pass, episodes, content_scenes_path, open,
                   scenes, i, sharded, reads, parses, result, err>>

----------------------------------------------------------------------------
(* get_scenes_to_load *)

\* check_config_paths_exist, scenes_dir_exists being os.path.exists(config.scenes_dir)
CheckConfigPathsExist(scenes_dir_exists) == Exists(DatasetFilePath) /\ scenes_dir_exists

\* the caller's config after cfg, a copy of it, has been written
CallerConfigAfter(caller, written) == caller

\* cfg.content_scenes of the first construction
ProbeContentScenes == <<>>

\* a second construction that keeps the caller's requested scenes
FullContentScenesRequested == config.content_scenes

\* cfg.content_scenes of the second construction
FullContentScenes == <<ALL_SCENES_MASK>>

\* the check of the paths, the copy of the configuration and the call cls(cfg)
GetScenesStart ==
    /\ pc = "g_start"
    /\ IF ~Exists(DatasetFilePath)
       THEN Raise("FileNotFoundError") /\ UNCHANGED <<cfg, pass>>
       ELSE IF config.scenes_dir = None
       THEN Raise("TypeError") /\ UNCHANGED <<cfg, pass>>
       ELSE \E scenes_dir_exists \in BOOLEAN :
                IF ~CheckConfigPathsExist(scenes_dir_exists)
                THEN Raise("FileNotFoundError") /\ UNCHANGED <<cfg, pass>>
                ELSE /\ cfg' = [config EXCEPT !.content_scenes = ProbeContentScenes]
                     /\ pass' = 1
                     /\ pc' = "start"
                     /\ UNCHANGED err
    /\ config' = IF pc' = "start" THEN CallerConfigAfter(config, cfg') ELSE config
    /\ UNCHANGED <<fs, op, episodes, content_scenes_path, open, scenes, i,
                   sharded, reads, parses, result>>

\* the first dataset has shards: return what _get_scenes_from_folder finds
GetScenesSharded ==
    /\ op = "get" /\ pass = 1 /\ pc = "done"
    /\ HasIndividualSceneFiles(content_scenes_path)
    /\ \E listing \in Orders(ListDir(ContentDir(content_scenes_path, DatasetDir))) :
           result' = GetScenesFromFolder(content_scenes_path, DatasetDir, listing)
    /\ pc' = "returned"
    /\ UNCHANGED <<fs, config, cfg, op, pass, episodes, content_scenes_path, open,
                   scenes, i, sharded, reads, parses, err>>

\* it has none: construct a second dataset with the all-scenes mask
GetScenesReload ==
    /\ op = "get" /\ pass = 1 /\ pc = "done"
    /\ ~HasIndividualSceneFiles(content_scenes_path)
    /\ cfg' = [cfg EXCEPT !.content_scenes = FullContentScenes]
    /\ pass' = 2
    /\ pc' = "start"
    /\ episodes' = <<>>
    /\ content_scenes_path' = DefaultContentScenesPath
    /\ scenes' = <<>>
    /\ i' = 0
    /\ sharded' = FALSE
    /\ reads' = <<>>
    /\ parses' = 0
    /\ config' = CallerConfigAfter(config, cfg')
    /\ UNCHANGED <<fs, op, open, result, err>>

\* return list(map(cls.scene_from_scene_path, dataset.scene_ids))
GetScenesReturn ==
    /\ op = "get" /\ pass = 2 /\ pc = "done"
    /\ result' = [k \in 1..Len(scene_ids(episodes)) |->
                      scene_from_scene_path(scene_ids(episodes)[k])]
    /\ pc' = "returned"
    /\ UNCHANGED <<fs, config, cfg, op, pass, episodes, content_scenes_path, open,
                   scenes, i, sharded, reads, parses, err>>

\* a direct call of _get_scenes_from_folder with the arguments in config
CallGetScenesFromFolder ==
    /\ op = "discover" /\ pc = "d_start"
    /\ \E listing \in Orders(ListDir(ContentDir(config.content_scenes_path,
                                                config.dataset_dir))) :
           result' = GetScenesFromFolder(config.content_scenes_path,
                                         config.dataset_dir, listing)
    /\ pc' = "returned"
    /\ UNCHANGED <<fs, config, cfg, op, pass, episodes, content_scenes_path, open,
                   scenes, i, sharded, reads, parses, err>>

Next ==
    \/ OpenCombined
    \/ Parse
    \/ Close
    \/ Layout
    \/ OpenShard
    \/ LoopEnd
    \/ GetScenesStart
    \/ GetScenesSharded
    \/ GetScenesReload
    \/ GetScenesReturn
    \/ CallGetScenesFromFolder

Spec == Init /\ [][Next]_vars

----------------------------------------------------------------------------
(* What the properties below speak about *)

ConstructorRuns == op \in {"init", "get"}

\* the document of the k-th file the running construction opened
DocRead(k) == ReadDoc(reads[k])

\* the documents among the first n read whose override from_json has stored
DeclaredUpTo(n) ==
    {k \in 1..n : ~DocRead(k).malformed /\ DocRead(k).has_csp}

Max(S) == CHOOSE x \in S : \A y \in S : y <= x

Min(S) == CHOOSE x \in S : \A y \in S : x <= y

\* the template declared last among the first n documents read
LastDeclaredTemplate(n) ==
    IF DeclaredUpTo(n) = {} THEN DefaultContentScenesPath
    ELSE DocRead(Max(DeclaredUpTo(n))).csp

\* the template declared first among the first n documents read
FirstDeclaredTemplate(n) ==
    IF DeclaredUpTo(n) = {} THEN DefaultContentScenesPath
    ELSE DocRead(Min(DeclaredUpTo(n))).csp

\* all episodes of the file at path, typed and rewritten, in file order
EpisodesOfFile(path) ==
    [k \in 1..Len(ReadDoc(path).episodes) |->
        StoredEpisode(ReadDoc(path).episodes[k], cfg.scenes_dir)]

RECURSIVE ConcatAll(_)
ConcatAll(ss) == IF ss = <<>> THEN <<>> ELSE Head(ss) \o ConcatAll(Tail(ss))

\* the episodes of the files at paths, file after file
EpisodesOfFiles(paths) == ConcatAll([k \in 1..Len(paths) |-> EpisodesOfFile(paths[k])])

Ascending(list) ==
    \A k \in 1..(Len(list) - 1) : list[k] = list[k + 1] \/ StrLess(list[k], list[k + 1])

StrictlyAscending(list) ==
    \A k \in 1..(Len(list) - 1) : StrLess(list[k], list[k + 1])

\* the template in effect once the combined file has been parsed
TemplateOfCombined ==
    IF ~fs.combined.malformed /\ fs.combined.has_csp
    THEN fs.combined.csp ELSE DefaultContentScenesPath

\* the entries of the content directory of template t that end with its suffix
ShardNames(t) ==
    {n \in ListDir(ContentDir(t, DatasetDir)) : EndsWith(n, SplitSecond(t))}

\* a shard file name without the suffix of template t
SceneIdOfName(n, t) == Take(n, Len(n) - Len(SplitSecond(t)))

SceneIdsInFolder(t) == {SceneIdOfName(n, t) : n \in ShardNames(t)}

ShardedAllScenesDone ==
    /\ ConstructorRuns /\ pc = "done" /\ sharded
    /\ ALL_SCENES_MASK \in Range(cfg.content_scenes)

ShardedSubsetDone ==
    /\ ConstructorRuns /\ pc = "done" /\ sharded
    /\ ALL_SCENES_MASK \notin Range(cfg.content_scenes)

\* every shard of the construction was resolved with the template then in effect
ShardsResolvedInTurn ==
    /\ Len(reads) = 1 + Len(scenes)
    /\ reads[1] = DatasetFilePath
    /\ \A k \in 1..Len(scenes) :
           reads[k + 1] = Format(LastDeclaredTemplate(k), DatasetDir, scenes[k])

----------------------------------------------------------------------------
(* C1 *)

\* C1 (as stated): a sharded load with the all-scenes sentinel ends with exactly the
\* episodes of the shard files of the content directory, each file once, in
\* ascending order of scene identifier, in-file order kept.
C1_OnlyShardEpisodes ==
    ShardedAllScenesDone =>
        \E files \in Orders({ContentDir(TemplateOfCombined, DatasetDir) \o n :
                                n \in ShardNames(TemplateOfCombined)}) :
            /\ StrictlyAscending(files)
            /\ episodes = EpisodesOfFiles(files)

\* C1 (amended): a sharded load with the all-scenes sentinel ends with the combined
\* file's episodes followed by one block per scene identifier found in the content
\* directory, identifiers ascending and each taken once, in-file order kept; the
\* block of an identifier is the file the template in effect at that point of the
\* loop resolves it to, which is its shard in the content directory as long as no
\* shard read before it declared another template.
C1_CombinedThenShards ==
    ShardedAllScenesDone =>
        /\ StrictlyAscending(scenes)
        /\ Range(scenes) = SceneIdsInFolder(TemplateOfCombined)
        /\ ShardsResolvedInTurn
        /\ episodes = EpisodesOfFiles(reads)
        /\ \A k \in 1..Len(scenes) :
               LastDeclaredTemplate(k) = TemplateOfCombined =>
                   /\ reads[k + 1] \in fs.files
                   /\ reads[k + 1] = ContentDir(TemplateOfCombined, DatasetDir)
                                       \o scenes[k] \o SplitSecond(TemplateOfCombined)

\* C1 witness: an all-scenes load of a combined file with episodes and two shards
C1_Witness ==
    /\ ShardedAllScenesDone
    /\ Len(reads) = 3
    /\ EpisodesOfFile(DatasetFilePath) # <<>>
    /\ Len(episodes) > Len(EpisodesOfFile(DatasetFilePath))

----------------------------------------------------------------------------
(* C2 *)

\* C2 (as stated): a sharded load of a requested list without the sentinel ends with
\* only the episodes of the requested scenes' shard files, in requested order, and
\* an empty list reads no shard and ends with no episode.
C2_OnlyRequestedShards ==
    ShardedSubsetDone =>
        /\ episodes = EpisodesOfFiles(
               [k \in 1..Len(cfg.content_scenes) |->
                   Format(TemplateOfCombined, DatasetDir, cfg.content_scenes[k])])
        /\ cfg.content_scenes = <<>> => Len(reads) = 1 /\ episodes = <<>>

\* C2 (amended): a sharded load of a requested list without the sentinel ends with
\* the combined file's episodes followed by one block per requested scene, in
\* requested order and in-file order, each block read from the file the template in
\* effect at that point resolves the scene to, and nothing from any other shard; an
\* empty list reads no shard and ends with exactly the combined file's episodes.
C2_CombinedThenRequested ==
    ShardedSubsetDone =>
        /\ scenes = cfg.content_scenes
        /\ ShardsResolvedInTurn
        /\ episodes = EpisodesOfFiles(reads)
        /\ cfg.content_scenes = <<>> =>
               reads = <<DatasetFilePath>> /\ episodes = EpisodesOfFile(DatasetFilePath)

\* C2 witness: two different scenes requested and read after a combined file with episodes
C2_Witness ==
    /\ ShardedSubsetDone
    /\ Len(cfg.content_scenes) = 2
    /\ cfg.content_scenes[1] # cfg.content_scenes[2]
    /\ Len(reads) = 3
    /\ EpisodesOfFile(DatasetFilePath) # <<>>

----------------------------------------------------------------------------
(* C3 *)

\* C3: a monolithic load ends with exactly the combined file's episodes, in file
\* order, whose scene_id basename stem is requested; with the sentinel in the
\* requested list every episode is kept.
C3_MonolithicFilter ==
    (ConstructorRuns /\ pc = "done" /\ ~sharded) =>
        LET all == EpisodesOfFile(DatasetFilePath)
            Requested(ep) ==
                \/ ALL_SCENES_MASK \in Range(cfg.content_scenes)
                \/ \E k \in 1..Len(cfg.content_scenes) :
                       cfg.content_scenes[k] = SplitextRoot(Basename(ep.scene_id))
        IN  /\ reads = <<DatasetFilePath>>
            /\ episodes = SelectSeq(all, Requested)
            /\ ALL_SCENES_MASK \in Range(cfg.content_scenes) => episodes = all

\* C3 witness: a monolithic load that keeps some episodes of the file and drops others
C3_Witness ==
    /\ ConstructorRuns /\ pc = "done" /\ ~sharded
    /\ episodes # <<>>
    /\ Len(episodes) < Len(EpisodesOfFile(DatasetFilePath))

----------------------------------------------------------------------------
(* C4 *)

\* C4 (as stated): the template of the dataset is the one declared by the first
\* parsed document that declares one; a later declaration does not change it.
C4_FirstDeclarationWins ==
    ConstructorRuns => content_scenes_path = FirstDeclaredTemplate(parses)

\* C4 (amended): the template of the dataset is the one declared by the most
\* recently parsed document that declares one, the class default when none has; a
\* document that declares none leaves it unchanged, a later declaration replaces
\* it, and each shard path is resolved with the template in effect when the loop
\* reaches that shard.
C4_LastDeclarationWins ==
    ConstructorRuns =>
        /\ content_scenes_path = LastDeclaredTemplate(parses)
        /\ \A k \in 1..(Len(reads) - 1) :
               reads[k + 1] = Format(LastDeclaredTemplate(k), DatasetDir, scenes[k])

\* C4 witness: two parsed documents declare different templates, a third none
C4_Witness ==
    /\ ConstructorRuns
    /\ \E j, k \in DeclaredUpTo(parses) : DocRead(j).csp # DocRead(k).csp
    /\ \E k \in 1..parses : ~DocRead(k).has_csp

----------------------------------------------------------------------------
(* C5 *)

\* C5: when from_json fails on a document, self.episodes is what it was before the
\* call: nothing of the failing document has been appended.
C5_NoPartialAppend ==
    [][(pc = "parse" /\ pc' = "close_exc") => episodes' = episodes]_vars

----------------------------------------------------------------------------
(* C6 *)

\* C6: when the directory of the combined file does not exist, __init__ and
\* get_scenes_to_load end with a file-not-found error before any from_json call:
\* no file is read, no episode appended, no dataset or result produced.
C6_MissingDirectoryFailsFirst ==
    (ConstructorRuns /\ DatasetDir \notin fs.dirs) =>
        /\ pc \in {"start", "g_start", "error"}
        /\ pc = "error" => err = "FileNotFoundError"
        /\ parses = 0
        /\ reads = <<>>
        /\ episodes = <<>>
        /\ result = <<>>

\* C6 witness: a construction has failed for want of the directory
C6_Witness ==
    /\ op = "init"
    /\ DatasetDir \notin fs.dirs
    /\ pc = "error"
    /\ err = "FileNotFoundError"

----------------------------------------------------------------------------
(* C7 *)

\* C7: for every template and root, _get_scenes_from_folder returns the empty list
\* when the content directory does not exist, and otherwise, ascending and without
\* duplicates, exactly the entries that end with the template's suffix, each with
\* the suffix stripped, so that each returned identifier names an existing shard.
C7_DiscoversShards ==
    (op = "discover" /\ pc = "returned") =>
        LET t == config.content_scenes_path
        IN  IF ~Exists(ContentDir(t, config.dataset_dir))
            THEN result = <<>>
            ELSE /\ StrictlyAscending(result)
                 /\ Range(result) = SceneIdsInFolder(t)
                 /\ \A k \in 1..Len(result) :
                        IsFile(Format(t, config.dataset_dir, result[k]))

----------------------------------------------------------------------------
(* C8 *)

\* every JSON episode object of the model
EpisodeObjects ==
    UNION {Range(d.episodes) : d \in CombinedDocs \cup {ShardDoc(f) : f \in ContentFiles \cup AltFiles}}

\* the scene_id the JSON gives the episode with this id
JsonSceneId(id) == (CHOOSE o \in EpisodeObjects : o.episode_id = id).scene_id

Stripped(sid) ==
    IF StartsWith(sid, DEFAULT_SCENE_PATH_PREFIX)
    THEN Drop(sid, Len(DEFAULT_SCENE_PATH_PREFIX)) ELSE sid

DefaultScenesDir == Take(DEFAULT_SCENE_PATH_PREFIX, Len(DEFAULT_SCENE_PATH_PREFIX) - 1)

\* the stored scene_id follows the rewrite rule
RewriteRule(ep) ==
    IF cfg.scenes_dir # None
    THEN ep.scene_id = PathJoin(cfg.scenes_dir, Stripped(JsonSceneId(ep.episode_id)))
    ELSE ep.scene_id = JsonSceneId(ep.episode_id)

\* C8 (as stated): every stored scene_id is the asset root joined with the JSON
\* scene_id less the default prefix when it starts with it, and the JSON scene_id
\* itself without an asset root; so with asset root "data/scene_datasets" every
\* scene_id that starts with the default prefix is stored unchanged.
C8_RewriteRestoresPrefixed ==
    ConstructorRuns =>
        \A k \in 1..Len(episodes) :
            /\ RewriteRule(episodes[k])
            /\ (/\ cfg.scenes_dir = DefaultScenesDir
                /\ StartsWith(JsonSceneId(episodes[k].episode_id), DEFAULT_SCENE_PATH_PREFIX))
               => episodes[k].scene_id = JsonSceneId(episodes[k].episode_id)

\* C8 (amended): the same rule; with asset root "data/scene_datasets" a scene_id
\* that starts with the default prefix is stored unchanged unless what follows the
\* prefix begins with "/", in which case the join yields that remainder alone.
C8_RewriteRule ==
    ConstructorRuns =>
        \A k \in 1..Len(episodes) :
            LET js == JsonSceneId(episodes[k].episode_id)
            IN  /\ RewriteRule(episodes[k])
                /\ (/\ cfg.scenes_dir = DefaultScenesDir
                    /\ StartsWith(js, DEFAULT_SCENE_PATH_PREFIX))
                   => IF StartsWith(Stripped(js), <<"/">>)
                      THEN episodes[k].scene_id = Stripped(js)
                      ELSE episodes[k].scene_id = js

\* C8 witness: episodes stored under the default asset root, one with the prefix
\* (restored) and one without it (the root put in front)
C8_Witness ==
    /\ ConstructorRuns
    /\ cfg.scenes_dir = DefaultScenesDir
    /\ \E k \in 1..Len(episodes) :
           /\ StartsWith(JsonSceneId(episodes[k].episode_id), DEFAULT_SCENE_PATH_PREFIX)
           /\ episodes[k].scene_id = JsonSceneId(episodes[k].episode_id)
    /\ \E k \in 1..Len(episodes) :
           /\ ~StartsWith(JsonSceneId(episodes[k].episode_id), DEFAULT_SCENE_PATH_PREFIX)
           /\ episodes[k].scene_id # JsonSceneId(episodes[k].episode_id)

----------------------------------------------------------------------------
(* C9 *)

\* the scene identifiers of all episodes of the combined file
ScenesOfCombined ==
    {SplitextRoot(Basename(RewriteSceneId(o.scene_id, config.scenes_dir))) :
        o \in Range(fs.combined.episodes)}

----------------------------------------------------------------------------
(* C10 *)

\* C10: at most one dataset file is open at any point; the combined file is closed
\* before the layout is determined, a shard before the next is opened, and no file
\* is open once the construction has completed or aborted.
C10_FilesScoped ==
    /\ Cardinality(open) <= 1
    /\ pc \in {"parse", "close", "close_exc"} => open = {reads[Len(reads)]}
    /\ pc \notin {"parse", "close", "close_exc"} => open = {}

\* C10 witness: a construction aborted by a shard that failed to parse, nothing open
C10_Witness ==
    /\ pc = "error"
    /\ parses >= 2
    /\ err = "TypeError"
    /\ open = {}

====
